---- MODULE Spec2Model ----
(***************************************************************************)
(* Model of the OAuth relay in src/src/handler.ts: the two operations      *)
(* handleAuth (AuthorizationInitiator) and handleCallback                  *)
(* (CallbackExchanger), the page/cookie builder outputHTML                 *)
(* (ResponsePageRenderer), and one browser whose cookie jar carries the    *)
(* csrf-token cookie between the two legs.                                 *)
(*                                                                         *)
(* A JavaScript string is a sequence of chunks.  Strings the code inspects *)
(* character by character (the Cookie header, provider names, tokens,      *)
(* state, site_id, ALLOWED_DOMAINS) are sequences of one-character         *)
(* strings; strings the code only passes along (client ids, host names,    *)
(* messages) are a single chunk.  The empty string is <<>>.                *)
(***************************************************************************)
EXTENDS Integers, Sequences, FiniteSets, TLC

VARIABLES
  env,          \* the process configuration handed to both operations
  jar,          \* the browser's csrf-token cookie value, or undefined
  pc,           \* position of the callback in flight: "idle", "fetching", "parsing"
  cb,           \* the locals of the callback in flight
  fetchCalls,   \* outbound token-exchange calls issued by the callback in flight
  last,         \* the most recently completed invocation: operation, request, response
  popup,        \* the responder page open in the browser's popup window, and its messages
  flows         \* the flows the browser has started: tokens minted for it, callbacks since

vars == <<env, jar, pc, cb, fetchCalls, last, popup, flows>>

----------------------------------------------------------------------------
(* JavaScript values *)

\* undefined / null: a value that is no string (no chunk is the empty string)
undefined == <<"">>

\* JS truthiness of a string-or-undefined value: undefined, null and '' are falsy
Truthy(v) == v # undefined /\ v # <<>>

\* v ?? d
Coalesce(v, d) == IF v = undefined THEN d ELSE v

Lower == {"a","b","c","d","e","f","g","h","i","j","k","l","m",
          "n","o","p","q","r","s","t","u","v","w","x","y","z"}
Upper == {"A","B","C","D","E","F","G","H","I","J","K","L","M",
          "N","O","P","Q","R","S","T","U","V","W","X","Y","Z"}
Digit == {"0","1","2","3","4","5","6","7","8","9"}

\* \w of a JavaScript regular expression
WordChar == Lower \cup Upper \cup Digit \cup {"_"}
\* [0-9a-f]
HexChar == Digit \cup {"a","b","c","d","e","f"}
\* [a-z-]
ProviderChar == Lower \cup {"-"}
\* the characters `.` does not match
LineTerminator == {"\n", "\r"}
\* \s as far as String.prototype.trim is concerned
WhiteSpace == {" ", "\t", "\n", "\r"}

Min(S) == CHOOSE x \in S : \A y \in S : x <= y

----------------------------------------------------------------------------
(* Provider identifiers *)

github    == <<"g","i","t","h","u","b">>
gitlab    == <<"g","i","t","l","a","b">>
bitbucket == <<"b","i","t","b","u","c","k","e","t">>
unknown   == <<"u","n","k","n","o","w","n">>

supportedProviders == {github, gitlab, bitbucket}

----------------------------------------------------------------------------
(* The domain allow-list: escapeRegExp, the wildcard replacement and the   *)
(* anchored match of handleAuth                                            *)

\* the characters escapeRegExp prefixes with a backslash
RegExpSpecial == {".","*","+","?","^","$","{","}","(",")","|","[","]","\\"}

RECURSIVE escapeRegExp(_)
escapeRegExp(str) ==
  IF str = <<>> THEN <<>>
  ELSE (IF Head(str) \in RegExpSpecial THEN <<"\\", Head(str)>> ELSE <<Head(str)>>)
       \o escapeRegExp(Tail(str))

\* escaped.replace('\\*', '.+'): a string pattern replaces the first occurrence only
ReplaceWildcard(escaped) ==
  LET hits == {i \in 1..(Len(escaped) - 1) : escaped[i] = "\\" /\ escaped[i+1] = "*"}
  IN  IF hits = {} THEN escaped
      ELSE LET i == Min(hits)
           IN  SubSeq(escaped, 1, i - 1) \o <<".", "+">> \o SubSeq(escaped, i + 2, Len(escaped))

\* str.trim()
RECURSIVE TrimLeft(_)
TrimLeft(str) ==
  IF str # <<>> /\ Head(str) \in WhiteSpace THEN TrimLeft(Tail(str)) ELSE str

RECURSIVE TrimRight(_)
TrimRight(str) ==
  IF str # <<>> /\ str[Len(str)] \in WhiteSpace
  THEN TrimRight(SubSeq(str, 1, Len(str) - 1)) ELSE str

Trim(str) == TrimRight(TrimLeft(str))

\* str.split(/,/)
RECURSIVE Split(_)
Split(str) ==
  LET commas == {i \in 1..Len(str) : str[i] = ","}
  IN  IF commas = {} THEN <<str>>
      ELSE LET i == Min(commas)
           IN  <<SubSeq(str, 1, i - 1)>> \o Split(SubSeq(str, i + 1, Len(str)))

\* The atoms of the pattern source built by handleAuth: after escapeRegExp every
\* special character is escaped, so the source holds escaped literals, plain
\* literals and at most one unescaped `.+`.
RECURSIVE Atoms(_)
Atoms(src) ==
  IF src = <<>> THEN <<>>
  ELSE IF Head(src) = "\\" /\ Len(src) >= 2
       THEN <<[kind |-> "lit", c |-> src[2]]>> \o Atoms(SubSeq(src, 3, Len(src)))
  ELSE IF Head(src) = "." /\ Len(src) >= 2 /\ src[2] = "+"
       THEN <<[kind |-> "anyplus", c |-> "."]>> \o Atoms(SubSeq(src, 3, Len(src)))
  ELSE <<[kind |-> "lit", c |-> Head(src)]>> \o Atoms(Tail(src))

\* new RegExp(`^${source}$`) matched against str: anchored at both ends; `.`
\* matches any character but a line terminator
RECURSIVE MatchAtoms(_, _)
MatchAtoms(atoms, str) ==
  IF atoms = <<>> THEN str = <<>>
  ELSE IF Head(atoms).kind = "lit"
       THEN str # <<>> /\ Head(str) = Head(atoms).c /\ MatchAtoms(Tail(atoms), Tail(str))
  ELSE \E n \in 1..Len(str) :
         /\ \A j \in 1..n : str[j] \notin LineTerminator
         /\ MatchAtoms(Tail(atoms), SubSeq(str, n + 1, Len(str)))

\* the match with the wildcard standing for zero or more characters
EntryMatchesMutant(entry, domain) ==
  LET atoms == Atoms(ReplaceWildcard(escapeRegExp(Trim(entry))))
  IN  \/ MatchAtoms(atoms, Coalesce(domain, <<>>))
      \/ MatchAtoms(SelectSeq(atoms, LAMBDA a : a.kind = "lit"), Coalesce(domain, <<>>))

\* (domain ?? '').match(new RegExp(`^${escapeRegExp(str.trim()).replace('\\*', '.+')}$`))
EntryMatches(entry, domain) ==
  MatchAtoms(Atoms(ReplaceWildcard(escapeRegExp(Trim(entry)))), Coalesce(domain, <<>>))

\* ALLOWED_DOMAINS && !ALLOWED_DOMAINS.split(/,/).some(...)
DomainRejected(allowed, domain) ==
  /\ Truthy(allowed)
  /\ ~ \E i \in 1..Len(Split(allowed)) : EntryMatches(Split(allowed)[i], domain)

----------------------------------------------------------------------------
(* outputHTML: the responder page and the cookie deletion *)

\* the options object of outputHTML and the content object it serialises;
\* a property that is undefined is left out by JSON.stringify
Options(provider, token, error, errorCode) ==
  [provider |-> provider, token |-> token, error |-> error, errorCode |-> errorCode]

\* a Set-Cookie header value, attribute by attribute
SetCookie(value, maxAge, secure) ==
  [name |-> <<"csrf-token">>, value |-> value, httpOnly |-> TRUE, maxAge |-> maxAge,
   path |-> <<"/">>, sameSite |-> <<"Lax">>, secure |-> secure]

NoLocation == [host |-> undefined, path |-> undefined, params |-> <<>>]

\* the characters JSON.stringify escapes inside a string, each a chunk of its own
\* wherever it occurs in a free-form string of the model
JSONEscaped == {"\"", "\\", "\n"}

\* JSON.stringify of the characters of a string
RECURSIVE EscapeJSON(_)
EscapeJSON(str) ==
  IF str = <<>> THEN <<>>
  ELSE LET c == Head(str)
       IN  (IF c = "\n" THEN <<"\\", "n">>
            ELSE IF c \in JSONEscaped THEN <<"\\", c>>
            ELSE <<c>>) \o EscapeJSON(Tail(str))

\* one property of JSON.stringify(content); an undefined property is left out
JSONProperty(k, v, first) ==
  IF v = undefined THEN <<>>
  ELSE (IF first THEN <<>> ELSE <<",">>) \o <<"\"", k, "\"", ":", "\"">> \o EscapeJSON(v) \o <<"\"">>

\* JSON.stringify(content)
JSONStringify(content) ==
  <<"{">> \o JSONProperty("provider", content.provider, TRUE)
          \o JSONProperty("token", content.token, FALSE)
          \o JSONProperty("error", content.error, FALSE)
          \o JSONProperty("errorCode", content.errorCode, FALSE) \o <<"}">>

\* how many backslashes stand in a row just before position i
BackslashesBefore(src, i) ==
  LET others == {j \in 1..(i - 1) : src[j] # "\\"}
  IN  (i - 1) - (IF others = {} THEN 0 ELSE CHOOSE j \in others : \A k \in others : k <= j)

\* the character at position i is the second one of an escape sequence
IsEscaped(src, i) ==
  /\ i > 1
  /\ src[i - 1] = "\\"
  /\ BackslashesBefore(src, i) % 2 = 1

\* The value of the single-quoted string literal of the page's script whose
\* source text is `src`: a backslash escapes the character after it, and a
\* quote that is not escaped ends the literal early, which leaves a script
\* that does not parse (ok = FALSE).
EvalLiteral(src) ==
  LET ok      == \A i \in 1..Len(src) : src[i] = "'" => IsEscaped(src, i)
      Kept(i) == src[i] # "\\" \/ IsEscaped(src, i)
      kept    == SelectSeq([i \in 1..Len(src) |-> i], Kept)
      Char(i) == IF src[i] = "n" /\ IsEscaped(src, i) THEN "\n" ELSE src[i]
  IN  [ok   |-> ok,
       text |-> IF ok THEN [k \in 1..Len(kept) |-> Char(kept[k])] ELSE <<>>]

\* no script: the body of a response that is not a responder page
NoScript == [runs |-> FALSE, listensFor |-> undefined, reply |-> undefined,
             announce |-> undefined]

\* authorization:${provider}:${state}:${JSON.stringify(content)}
ResultMessage(provider, state, content) ==
  <<"authorization:">> \o provider \o <<":", state, ":">> \o JSONStringify(content)

\* The script of the responder page: the message it waits for, the message it
\* answers with and the message it sends when it loads.
Script(provider, state, content) ==
  LET literal == EvalLiteral(ResultMessage(provider, state, content))
  IN  [runs       |-> literal.ok,
       listensFor |-> <<"authorizing:">> \o provider,
       reply      |-> literal.text,
       announce   |-> <<"authorizing:">> \o provider]

NoPage == [provider |-> undefined, state |-> "none",
           content |-> Options(undefined, undefined, undefined, undefined),
           script |-> NoScript]

deleted == <<"d","e","l","e","t","e","d">>

\* const insecureCookies = env?.INSECURE_COOKIES === '1'
insecureCookies(e) == e.INSECURE_COOKIES = <<"1">>

\* secureAttr of the deletion cookie
DeletionSecure(e) == ~ insecureCookies(e)

\* the responder page renewing the cookie instead of deleting it
DeletionMaxAgeMutant == 600

\* Max-Age of the cookie set by the responder page
DeletionMaxAge == 0

\* the body of the response: the page of the template literal
Page(options) ==
  LET provider == Coalesce(options.provider, unknown)
      state    == IF Truthy(options.error) THEN "error" ELSE "success"
      content  == IF Truthy(options.error)
                  THEN Options(provider, undefined, options.error, options.errorCode)
                  ELSE Options(provider, options.token, undefined, undefined)
  IN  [provider |-> provider, state |-> state, content |-> content,
       script |-> Script(provider, state, content)]

----------------------------------------------------------------------------
(* The csrf-token cookie: the pattern handleCallback applies to the Cookie *)
(* header, /\bcsrf-token=([a-z-]+?)_([0-9a-f]{32})\b/                      *)

\* {32} of the pattern; the length of crypto.randomUUID() without its dashes
TokenLen == 32

CookiePrefix == <<"c","s","r","f","-","t","o","k","e","n","=">>

IsWordAt(h, i) == i >= 1 /\ i <= Len(h) /\ h[i] \in WordChar

\* \b just before position i
WordBoundary(h, i) == IsWordAt(h, i - 1) # IsWordAt(h, i)

\* csrf-token= read from position i
PrefixAt(h, i) ==
  /\ i + Len(CookiePrefix) - 1 <= Len(h)
  /\ \A j \in 1..Len(CookiePrefix) : h[i + j - 1] = CookiePrefix[j]

\* The length of the provider group when the pattern matches at position i,
\* else 0.  `_` is not in [a-z-], so the lazy group can only end at the first `_`.
ProviderLenAt(h, i) ==
  LET p  == i + Len(CookiePrefix)
      us == {j \in p..Len(h) : h[j] = "_"}
  IN  IF ~ PrefixAt(h, i) THEN 0
      ELSE IF ~ WordBoundary(h, i) THEN 0
      ELSE IF us = {} THEN 0
      ELSE LET u == Min(us)
           IN  IF /\ u > p
                  /\ \A j \in p..(u - 1) : h[j] \in ProviderChar
                  /\ u + TokenLen <= Len(h)
                  /\ \A j \in (u + 1)..(u + TokenLen) : h[j] \in HexChar
                  /\ WordBoundary(h, u + TokenLen + 1)
               THEN u - p ELSE 0

NoMatch == [provider |-> undefined, csrfToken |-> undefined]

\* headers.get('Cookie')?.match(...): groups 1 and 2 of the leftmost match
matchCookie(header) ==
  IF header = undefined THEN NoMatch
  ELSE LET starts == {i \in 1..Len(header) : ProviderLenAt(header, i) > 0}
       IN  IF starts = {} THEN NoMatch
           ELSE LET i == Min(starts)
                    p == i + Len(CookiePrefix)
                    k == ProviderLenAt(header, i)
                IN  [provider  |-> SubSeq(header, p, p + k - 1),
                     csrfToken |-> SubSeq(header, p + k + 1, p + k + TokenLen)]

----------------------------------------------------------------------------
(* Inputs: configurations, requests, minted tokens, token-endpoint replies *)

\* how many different values crypto.randomUUID() returns in the model
MaxTokens == 2

TokenFill == <<"a", "7", "0", "e">>

\* crypto.randomUUID().replaceAll('-', ''): 32 lowercase hex digits, the version
\* digit 4 and a variant digit in their places
Token(c) ==
  [i \in 1..TokenLen |-> IF i = 13 THEN "4" ELSE IF i = 17 THEN "8" ELSE c]

MintedTokens == {Token(TokenFill[i]) : i \in 1..MaxTokens}

T1 == Token("a")

example_com == <<"e","x","a","m","p","l","e",".","c","o","m">>
evil_com    == <<"e","v","i","l",".","c","o","m">>
b_com       == <<"b",".","c","o","m">>

\* ALLOWED_DOMAINS: unset, empty, `*.example.com`, `evil.com, b.com`
AllowLists ==
  { undefined, <<>>,
    <<"*", ".">> \o example_com,
    evil_com \o <<",", " ">> \o b_com }

\* site_id: absent, evil.com, a.example.com, .example.com, b.com, <LF>.example.com
SiteIds ==
  { undefined, evil_com, <<"a", ".">> \o example_com, <<".">> \o example_com,
    b_com, <<"\n", ".">> \o example_com }

\* the credential part of the configuration: everything set, or one of the four
\* values missing (unset, or the empty string)
Credentials ==
  LET all == [GITHUB_CLIENT_ID |-> <<"gh-id">>, GITHUB_CLIENT_SECRET |-> <<"gh-secret">>,
              GITLAB_CLIENT_ID |-> <<"gl-id">>, GITLAB_CLIENT_SECRET |-> <<"gl-secret">>]
  IN  { all,
        [all EXCEPT !.GITHUB_CLIENT_ID = undefined],
        [all EXCEPT !.GITHUB_CLIENT_SECRET = <<>>],
        [all EXCEPT !.GITLAB_CLIENT_ID = <<>>],
        [all EXCEPT !.GITLAB_CLIENT_SECRET = undefined] }

Config(allowed, c, insecure, ghHost, glHost) ==
  [ALLOWED_DOMAINS      |-> allowed,
   GITHUB_CLIENT_ID     |-> c.GITHUB_CLIENT_ID,
   GITHUB_CLIENT_SECRET |-> c.GITHUB_CLIENT_SECRET,
   GITHUB_HOSTNAME      |-> ghHost,
   GITLAB_CLIENT_ID     |-> c.GITLAB_CLIENT_ID,
   GITLAB_CLIENT_SECRET |-> c.GITLAB_CLIENT_SECRET,
   GITLAB_HOSTNAME      |-> glHost,
   INSECURE_COOKIES     |-> insecure]

\* The configurations: every allow-list with every credential set and both cookie
\* modes under the default host names, and two with the host names overridden.
Configs ==
  { Config(a, c, i, undefined, undefined) :
      a \in AllowLists, c \in Credentials, i \in {<<"0">>, <<"1">>} }
  \cup
  { Config(undefined, c, <<"0">>, <<"ghe.example.org">>, <<"gitlab.example.org">>) :
      c \in {x \in Credentials : Truthy(x.GITHUB_CLIENT_ID) /\ Truthy(x.GITLAB_CLIENT_SECRET)
                                 /\ Truthy(x.GITHUB_CLIENT_SECRET) /\ Truthy(x.GITLAB_CLIENT_ID)} }

Origin == <<"https://auth.example.org">>

Request(provider, site_id, cookie, code, state, viaBrowser) ==
  [provider |-> provider, site_id |-> site_id, origin |-> Origin,
   cookie |-> cookie, code |-> code, state |-> state, viaBrowser |-> viaBrowser]

\* provider query values: absent, the three known ones, one unknown
QueryProviders == { undefined, github, gitlab, bitbucket, <<"s","v","n">> }

\* the Cookie header the browser sends for its jar
CookieHeader(j) == IF j = undefined THEN undefined ELSE CookiePrefix \o j

\* Cookie headers of requests that do not come from the browser's jar
ForgedCookies ==
  { undefined,
    CookiePrefix \o github \o <<"_">> \o T1,
    CookiePrefix \o gitlab \o <<"_">> \o T1,
    CookiePrefix \o bitbucket \o <<"_">> \o T1,
    CookiePrefix \o <<"s","v","n">> \o <<"_">> \o T1,
    CookiePrefix \o github \o <<"_">> \o SubSeq(T1, 1, TokenLen - 1),
    CookiePrefix \o github \o <<"_">> \o T1 \o <<"0">>,
    <<"x", "-">> \o CookiePrefix \o github \o <<"_">> \o T1,
    <<"s","i","d","=","1",";"," ">> \o CookiePrefix \o gitlab \o <<"_">> \o Token("7") }

Codes  == { undefined, <<"abc">> }
States == { undefined, <<>> } \cup MintedTokens

\* every Cookie header a request of the model carries
CookieHeaders ==
  ForgedCookies
  \cup {CookiePrefix \o p \o <<"_">> \o t : p \in {github, gitlab}, t \in MintedTokens}

\* the match of each of them, computed once
CookieMatches == [header \in CookieHeaders |-> matchCookie(header)]

cookieMatch(header) ==
  IF header \in DOMAIN CookieMatches THEN CookieMatches[header] ELSE matchCookie(header)

\* what the token endpoint sends back: a body response.json() cannot parse, the
\* JSON value null, or an object with optional access_token and error
Data(json, access_token, error) ==
  [json |-> json, access_token |-> access_token, error |-> error]

\* access_token values: absent, empty, a plain one, one holding a double quote
AccessTokens == { undefined, <<>>, <<"XYZ">>, <<"X", "\"", "Z">> }

\* error values: absent, empty, a plain one, one holding a double quote, one
\* holding a single quote
Errors == { undefined, <<>>, <<"bad_verification_code">>,
            <<"bad ", "\"", "code", "\"">>, <<"user", "'", "s code">> }

Bodies ==
  { Data("invalid", undefined, undefined), Data("null", undefined, undefined) }
  \cup
  { Data("object", t, er) : t \in AccessTokens, er \in Errors }

----------------------------------------------------------------------------
(* Guards shared by the two operations *)

\* the check that only asks for a provider to be given
ProviderUnsupportedMutant(provider) == ~ Truthy(provider)

\* !provider || !supportedProviders.includes(provider)
ProviderUnsupported(provider) ==
  ~ Truthy(provider) \/ provider \notin supportedProviders

\* supportedProviders.includes(provider ?? '') ? provider : 'unknown'
KnownProvider(provider) ==
  IF Coalesce(provider, <<>>) \in supportedProviders THEN provider ELSE unknown

\* the rejected provider echoed into the page
RejectedProviderMutant(provider) == provider

\* the provider property of the options of an UNSUPPORTED_BACKEND rejection of an
\* unrecognised provider: the options object has none
RejectedProvider(provider) == undefined

\* the check that forgets the secret
CredentialsMissingMutant(id, secret) == ~ Truthy(id)

\* !CLIENT_ID || !CLIENT_SECRET
CredentialsMissing(id, secret) == ~ Truthy(id) \/ ~ Truthy(secret)

\* !code || !state
CodeOrStateMissing(code, state) == ~ Truthy(code) \/ ~ Truthy(state)

\* the check that only asks for a cookie token to exist
CsrfMismatchMutant(csrfToken, state) == ~ Truthy(csrfToken)

\* !csrfToken || state !== csrfToken
CsrfMismatch(csrfToken, state) == ~ Truthy(csrfToken) \/ state # csrfToken

\* the bitbucket branch left out
NotYetSupportedMutant(provider) == FALSE

\* provider === 'bitbucket': recognised, its OAuth dance not implemented
NotYetSupported(provider) == provider = bitbucket

clientId(e, provider) ==
  IF provider = github THEN e.GITHUB_CLIENT_ID ELSE e.GITLAB_CLIENT_ID

clientSecret(e, provider) ==
  IF provider = github THEN e.GITHUB_CLIENT_SECRET ELSE e.GITLAB_CLIENT_SECRET

\* GITHUB_HOSTNAME = 'github.com', GITLAB_HOSTNAME = 'gitlab.com'
hostname(e, provider) ==
  IF provider = github THEN Coalesce(e.GITHUB_HOSTNAME, <<"github.com">>)
  ELSE Coalesce(e.GITLAB_HOSTNAME, <<"gitlab.com">>)

Param(k, v) == [k |-> k, v |-> v]

ErrUnsupported  == <<"Your Git backend is not supported by the authenticator.">>
ErrDomain       == <<"Your domain is not allowed to use the authenticator.">>
ErrCredentials  == <<"OAuth app client ID or secret is not configured.">>
ErrBitbucket    == <<"Bitbucket OAuth is not yet supported.">>
ErrAuthCode     == <<"Failed to receive an authorization code. Please try again later.">>
ErrCsrf         == <<"Potential CSRF attack detected. Authentication flow aborted.">>
ErrTokenRequest == <<"Failed to request an access token. Please try again later.">>
ErrMalformed    == <<"Server responded with malformed data. Please try again later.">>

UNSUPPORTED_BACKEND      == <<"UNSUPPORTED_BACKEND">>
UNSUPPORTED_DOMAIN       == <<"UNSUPPORTED_DOMAIN">>
MISCONFIGURED_CLIENT     == <<"MISCONFIGURED_CLIENT">>
AUTH_CODE_REQUEST_FAILED == <<"AUTH_CODE_REQUEST_FAILED">>
CSRF_DETECTED            == <<"CSRF_DETECTED">>
TOKEN_REQUEST_FAILED     == <<"TOKEN_REQUEST_FAILED">>
MALFORMED_RESPONSE       == <<"MALFORMED_RESPONSE">>

\* every options object the two operations hand to outputHTML
OptionsPassed ==
  { Options(undefined, undefined, ErrUnsupported, UNSUPPORTED_BACKEND) }
  \cup
  { Options(p, undefined, m[1], m[2]) :
      p \in supportedProviders,
      m \in { <<ErrDomain, UNSUPPORTED_DOMAIN>>, <<ErrCredentials, MISCONFIGURED_CLIENT>>,
              <<ErrBitbucket, UNSUPPORTED_BACKEND>>, <<ErrAuthCode, AUTH_CODE_REQUEST_FAILED>>,
              <<ErrCsrf, CSRF_DETECTED>>, <<ErrTokenRequest, TOKEN_REQUEST_FAILED>>,
              <<ErrMalformed, MALFORMED_RESPONSE>> } }
  \cup
  { Options(p, Coalesce(t, <<>>), Coalesce(er, <<>>), undefined) :
      p \in supportedProviders, t \in AccessTokens, er \in Errors }

\* the page of each of them, computed once
Pages == [options \in OptionsPassed |-> Page(options)]

page(options) == IF options \in DOMAIN Pages THEN Pages[options] ELSE Page(options)

outputHTML(options, e) ==
  [status      |-> 200,
   contentType |-> <<"text/html;charset=UTF-8">>,
   location    |-> NoLocation,
   setCookie   |-> SetCookie(deleted, DeletionMaxAge, DeletionSecure(e)),
   page        |-> page(options)]

----------------------------------------------------------------------------
(* handleAuth *)

\* the GitLab parameters without redirect_uri
authParamsMutant(provider, e, origin, csrfToken) ==
  IF provider = github
  THEN << Param("client_id", e.GITHUB_CLIENT_ID),
          Param("scope", <<"repo,user">>),
          Param("state", csrfToken) >>
  ELSE << Param("client_id", e.GITLAB_CLIENT_ID),
          Param("response_type", <<"code">>),
          Param("scope", <<"api">>),
          Param("state", csrfToken) >>

\* the query parameters of the authorization URL, before URLSearchParams encodes them
authParams(provider, e, origin, csrfToken) ==
  IF provider = github
  THEN << Param("client_id", e.GITHUB_CLIENT_ID),
          Param("scope", <<"repo,user">>),
          Param("state", csrfToken) >>
  ELSE << Param("client_id", e.GITLAB_CLIENT_ID),
          Param("redirect_uri", origin \o <<"/callback">>),
          Param("response_type", <<"code">>),
          Param("scope", <<"api">>),
          Param("state", csrfToken) >>

authURL(provider, e, origin, csrfToken) ==
  [host   |-> hostname(e, provider),
   path   |-> IF provider = github THEN <<"/login/oauth/authorize">>
              ELSE <<"/oauth/authorize">>,
   params |-> authParams(provider, e, origin, csrfToken)]

\* the Secure attribute of the cookie handleAuth issues: the literal ends "; Secure"
IssuedSecure(e) == TRUE

\* the cookie value joined with a dash
IssuedCookieMutant(provider, csrfToken, e) ==
  SetCookie(KnownProvider(provider) \o <<"-">> \o csrfToken, 600, IssuedSecure(e))

\* `csrf-token=${cookieProvider}_${csrfToken}; HttpOnly; Path=/; Max-Age=600; SameSite=Lax; Secure`
IssuedCookie(provider, csrfToken, e) ==
  SetCookie(KnownProvider(provider) \o <<"_">> \o csrfToken, 600, IssuedSecure(e))

\* the 302 that sends the browser to the authorization server
Redirect(provider, e, origin, csrfToken) ==
  [status      |-> 302,
   contentType |-> undefined,
   location    |-> authURL(provider, e, origin, csrfToken),
   setCookie   |-> IssuedCookie(provider, csrfToken, e),
   page        |-> NoPage]

\* request: [provider, site_id, origin]; csrfToken: what crypto.randomUUID() returned
handleAuth(request, e, csrfToken) ==
  LET provider    == request.provider
      domain      == request.site_id
      reqProvider == KnownProvider(provider)
  IN  IF ProviderUnsupported(provider)
      THEN outputHTML(Options(RejectedProvider(provider), undefined,
                              ErrUnsupported, UNSUPPORTED_BACKEND), e)
      ELSE IF DomainRejected(e.ALLOWED_DOMAINS, domain)
      THEN outputHTML(Options(reqProvider, undefined, ErrDomain, UNSUPPORTED_DOMAIN), e)
      ELSE IF provider \in {github, gitlab}
              /\ CredentialsMissing(clientId(e, provider), clientSecret(e, provider))
      THEN outputHTML(Options(reqProvider, undefined, ErrCredentials, MISCONFIGURED_CLIENT), e)
      ELSE IF NotYetSupported(provider)
      THEN outputHTML(Options(reqProvider, undefined, ErrBitbucket, UNSUPPORTED_BACKEND), e)
      ELSE Redirect(provider, e, request.origin, csrfToken)

----------------------------------------------------------------------------
(* handleCallback, up to the outbound call *)

NoResponse == [status |-> 0, contentType |-> undefined, location |-> NoLocation,
               setCookie |-> SetCookie(undefined, 0, FALSE), page |-> NoPage]

NoFetch == [tokenURL |-> NoLocation, requestBody |-> <<>>]

\* tokenURL and requestBody of the POST
tokenRequest(provider, e, code, origin) ==
  IF provider = github
  THEN [tokenURL    |-> [host |-> hostname(e, provider),
                         path |-> <<"/login/oauth/access_token">>, params |-> <<>>],
        requestBody |-> << Param("code", code),
                           Param("client_id", e.GITHUB_CLIENT_ID),
                           Param("client_secret", e.GITHUB_CLIENT_SECRET) >>]
  ELSE [tokenURL    |-> [host |-> hostname(e, provider),
                         path |-> <<"/oauth/token">>, params |-> <<>>],
        requestBody |-> << Param("code", code),
                           Param("client_id", e.GITLAB_CLIENT_ID),
                           Param("client_secret", e.GITLAB_CLIENT_SECRET),
                           Param("grant_type", <<"authorization_code">>),
                           Param("redirect_uri", origin \o <<"/callback">>) >>]

Returned(response) == [returned |-> TRUE, response |-> response, fetch |-> NoFetch]

\* request: [cookie, code, state, origin].  Either the response handleCallback
\* returns before any outbound call, or the POST it goes on to issue.
callbackChecks(request, e) ==
  LET code           == request.code
      state          == request.state
      provider       == cookieMatch(request.cookie).provider
      csrfToken      == cookieMatch(request.cookie).csrfToken
      cookieProvider == KnownProvider(provider)
  IN  IF ProviderUnsupported(provider)
      THEN Returned(outputHTML(
             Options(RejectedProvider(provider), undefined,
                     ErrUnsupported, UNSUPPORTED_BACKEND), e))
      ELSE IF CodeOrStateMissing(code, state)
      THEN Returned(outputHTML(
             Options(cookieProvider, undefined, ErrAuthCode, AUTH_CODE_REQUEST_FAILED), e))
      ELSE IF CsrfMismatch(csrfToken, state)
      THEN Returned(outputHTML(
             Options(cookieProvider, undefined, ErrCsrf, CSRF_DETECTED), e))
      ELSE IF provider \in {github, gitlab}
              /\ CredentialsMissing(clientId(e, provider), clientSecret(e, provider))
      THEN Returned(outputHTML(
             Options(cookieProvider, undefined, ErrCredentials, MISCONFIGURED_CLIENT), e))
      ELSE IF NotYetSupported(provider)
      THEN Returned(outputHTML(
             Options(cookieProvider, undefined, ErrBitbucket, UNSUPPORTED_BACKEND), e))
      ELSE [returned |-> FALSE, response |-> NoResponse,
            fetch    |-> tokenRequest(provider, e, code, request.origin)]

\* the page after the outbound call threw or was rejected: response stays undefined
tokenRequestFailed(request, e) ==
  outputHTML(Options(KnownProvider(cookieMatch(request.cookie).provider), undefined,
                     ErrTokenRequest, TOKEN_REQUEST_FAILED), e)

\* the fault of response.json() leaving the operation: no response is returned
malformedResponseMutant(request, e) == NoResponse

\* the page after response.json() threw, or reading a property of its result did
malformedResponse(request, e) ==
  outputHTML(Options(KnownProvider(cookieMatch(request.cookie).provider), undefined,
                     ErrMalformed, MALFORMED_RESPONSE), e)

\* token = data.access_token ?? ''; error = data.error ?? ''; the final page
tokenResponse(request, e, data) ==
  outputHTML(Options(KnownProvider(cookieMatch(request.cookie).provider),
                     Coalesce(data.access_token, <<>>),
                     Coalesce(data.error, <<>>), undefined), e)

----------------------------------------------------------------------------
(* The state machine *)

NoRequest == Request(undefined, undefined, undefined, undefined, undefined, FALSE)

NoBody == Data("none", undefined, undefined)

NoLast == [op |-> "none", request |-> NoRequest, response |-> NoResponse, fetchCalls |-> 0,
           body |-> NoBody]

NoCb == [request |-> NoRequest, fetch |-> NoFetch, body |-> NoBody]

\* the browser stores or deletes the cookie as the response's Set-Cookie says
ApplySetCookie(j, request, response) ==
  IF ~ request.viaBrowser THEN j
  ELSE IF response.setCookie.maxAge > 0 THEN response.setCookie.value
  ELSE undefined

\* no page is open in the popup
NoPopup == [page |-> NoPage, opener |-> FALSE, loaded |-> FALSE, listening |-> FALSE,
            received |-> 0, event |-> [data |-> undefined, origin |-> undefined],
            posted |-> <<>>]

\* the browser has started no flow
NoFlows == [minted |-> <<>>, callbacks |-> 0, pages |-> 0]

Init ==
  /\ env \in Configs
  /\ jar = undefined
  /\ pc = "idle"
  /\ cb = NoCb
  /\ fetchCalls = 0
  /\ last = NoLast
  /\ popup = NoPopup
  /\ flows = NoFlows

Complete(op, request, response, calls) ==
  /\ last' = [op |-> op, request |-> request, response |-> response, fetchCalls |-> calls,
              body |-> cb.body]
  /\ jar' = ApplySetCookie(jar, request, response)
  /\ pc' = "idle"
  /\ cb' = NoCb
  /\ fetchCalls' = 0

\* GET /auth from the browser
Auth ==
  /\ pc = "idle"
  /\ \E provider \in QueryProviders, site_id \in SiteIds, csrfToken \in MintedTokens :
       LET request  == Request(provider, site_id, CookieHeader(jar), undefined, undefined, TRUE)
           response == handleAuth(request, env, csrfToken)
       IN  /\ (response.status # 302 => csrfToken = T1)
           /\ Complete("auth", request, response, 0)
  /\ UNCHANGED <<env, popup, flows>>

\* GET /callback, from the browser with its jar or from elsewhere with any Cookie
\* header: handleCallback up to its first await
CallbackBegin ==
  /\ pc = "idle"
  /\ \E viaBrowser \in BOOLEAN, forged \in ForgedCookies, code \in Codes, state \in States :
       LET cookie  == IF viaBrowser THEN CookieHeader(jar) ELSE forged
           request == Request(undefined, undefined, cookie, code, state, viaBrowser)
           checks  == callbackChecks(request, env)
       IN  /\ (viaBrowser => forged = undefined)
           /\ IF checks.returned
              THEN Complete("callback", request, checks.response, 0)
              ELSE /\ pc' = "fetching"
                   /\ cb' = [NoCb EXCEPT !.request = request, !.fetch = checks.fetch]
                   /\ fetchCalls' = fetchCalls + 1
                   /\ last' = NoLast
                   /\ jar' = jar
  /\ UNCHANGED <<env, popup, flows>>

\* a failed call tried once more before giving up
FetchFailedMutant ==
  /\ pc = "fetching"
  /\ IF fetchCalls < 2
     THEN /\ fetchCalls' = fetchCalls + 1
          /\ UNCHANGED <<jar, pc, cb, last>>
     ELSE Complete("callback", cb.request, tokenRequestFailed(cb.request, env), fetchCalls)
  /\ UNCHANGED <<env, popup, flows>>

\* await fetch(...) threw: the catch block leaves response undefined
FetchFailed ==
  /\ pc = "fetching"
  /\ Complete("callback", cb.request, tokenRequestFailed(cb.request, env), fetchCalls)
  /\ UNCHANGED <<env, popup, flows>>

\* await fetch(...) returned a response
FetchResponded ==
  /\ pc = "fetching"
  /\ \E body \in Bodies :
       cb' = [cb EXCEPT !.body = body]
  /\ pc' = "parsing"
  /\ UNCHANGED <<env, jar, fetchCalls, last, popup, flows>>

\* await response.json() threw, or data.access_token did (data is null)
JsonFailed ==
  /\ pc = "parsing"
  /\ cb.body.json # "object"
  /\ Complete("callback", cb.request, malformedResponse(cb.request, env), fetchCalls)
  /\ UNCHANGED <<env, popup, flows>>

\* await response.json() returned an object
JsonParsed ==
  /\ pc = "parsing"
  /\ cb.body.json = "object"
  /\ Complete("callback", cb.request, tokenResponse(cb.request, env, cb.body), fetchCalls)
  /\ UNCHANGED <<env, popup, flows>>

Next ==
  \/ Auth
  \/ CallbackBegin
  \/ FetchFailed
  \/ FetchResponded
  \/ JsonFailed
  \/ JsonParsed

Spec == Init /\ [][Next]_vars

\* Every await of handleCallback settles: fetch(...) resolves or rejects, and
\* so does response.json().
LiveSpec ==
  /\ Spec
  /\ WF_vars(FetchFailed \/ FetchResponded)
  /\ WF_vars(JsonFailed \/ JsonParsed)

----------------------------------------------------------------------------
(* One browser starting several flows before any callback: every request   *)
(* comes from the browser with its cookie jar, and `flows` remembers the    *)
(* tokens minted for it, in order, and how many callbacks it has made.      *)

\* how many callbacks the browser makes
MaxCallbacks == 2

\* configurations under which the initiator succeeds for github and gitlab
FlowInit ==
  /\ Init
  /\ env.ALLOWED_DOMAINS = undefined
  /\ env.INSECURE_COOKIES = <<"0">>
  /\ Truthy(env.GITHUB_CLIENT_ID) /\ Truthy(env.GITHUB_CLIENT_SECRET)
  /\ Truthy(env.GITLAB_CLIENT_ID) /\ Truthy(env.GITLAB_CLIENT_SECRET)

\* GET /auth from the browser, before its first callback; crypto.randomUUID()
\* returns a value it has not returned before
FlowAuth ==
  /\ pc = "idle"
  /\ flows.callbacks = 0
  /\ \E provider \in {github, gitlab}, site_id \in SiteIds, csrfToken \in MintedTokens :
       LET request  == Request(provider, site_id, CookieHeader(jar), undefined, undefined, TRUE)
           response == handleAuth(request, env, csrfToken)
       IN  /\ \A i \in 1..Len(flows.minted) : flows.minted[i] # csrfToken
           /\ Complete("auth", request, response, 0)
           /\ flows' = [flows EXCEPT !.minted = IF response.status = 302
                                                THEN Append(@, csrfToken) ELSE @]
  /\ UNCHANGED <<env, popup>>

\* GET /callback from the browser: handleCallback up to its first await
FlowCallback ==
  /\ pc = "idle"
  /\ flows.callbacks < MaxCallbacks
  /\ \E code \in Codes, state \in States :
       LET request == Request(undefined, undefined, CookieHeader(jar), code, state, TRUE)
           checks  == callbackChecks(request, env)
       IN  IF checks.returned
           THEN Complete("callback", request, checks.response, 0)
           ELSE /\ pc' = "fetching"
                /\ cb' = [NoCb EXCEPT !.request = request, !.fetch = checks.fetch]
                /\ fetchCalls' = fetchCalls + 1
                /\ last' = NoLast
                /\ jar' = jar
  /\ flows' = [flows EXCEPT !.callbacks = @ + 1]
  /\ UNCHANGED <<env, popup>>

FlowNext ==
  \/ FlowAuth
  \/ FlowCallback
  \/ FetchFailed
  \/ FetchResponded
  \/ JsonFailed
  \/ JsonParsed

FlowSpec == FlowInit /\ [][FlowNext]_vars

----------------------------------------------------------------------------
(* One browser making any sequence of requests, each with its cookie jar.   *)
(* `flows.minted` holds the token of its latest 302 and `flows.pages` the   *)
(* number of responder pages it was sent since then, counted up to the      *)
(* request before the one now being answered or last answered.              *)

\* the count of responder pages stops here
MaxPages == 2

\* the pages sent since the latest 302, the response in `last` included
PagesSoFar ==
  IF last.op = "none" THEN flows.pages
  ELSE IF last.response.status = 302 THEN 0
  ELSE IF flows.pages < MaxPages THEN flows.pages + 1
  ELSE MaxPages

\* GET /auth from the browser
JarAuth ==
  /\ pc = "idle"
  /\ \E provider \in QueryProviders, site_id \in SiteIds, csrfToken \in MintedTokens :
       LET request  == Request(provider, site_id, CookieHeader(jar), undefined, undefined, TRUE)
           response == handleAuth(request, env, csrfToken)
       IN  /\ (response.status # 302 => csrfToken = T1)
           /\ Complete("auth", request, response, 0)
           /\ flows' = [flows EXCEPT !.minted = IF response.status = 302
                                                THEN <<csrfToken>> ELSE @,
                                     !.pages = PagesSoFar]
  /\ UNCHANGED <<env, popup>>

\* GET /callback from the browser: handleCallback up to its first await
JarCallback ==
  /\ pc = "idle"
  /\ \E code \in Codes, state \in States :
       LET request == Request(undefined, undefined, CookieHeader(jar), code, state, TRUE)
           checks  == callbackChecks(request, env)
       IN  IF checks.returned
           THEN Complete("callback", request, checks.response, 0)
           ELSE /\ pc' = "fetching"
                /\ cb' = [NoCb EXCEPT !.request = request, !.fetch = checks.fetch]
                /\ fetchCalls' = fetchCalls + 1
                /\ last' = NoLast
                /\ jar' = jar
  /\ flows' = [flows EXCEPT !.pages = PagesSoFar]
  /\ UNCHANGED <<env, popup>>

JarNext ==
  \/ JarAuth
  \/ JarCallback
  \/ FetchFailed
  \/ FetchResponded
  \/ JsonFailed
  \/ JsonParsed

JarSpec == Init /\ [][JarNext]_vars

----------------------------------------------------------------------------
(* The router: the fetch method of the default export *)

GET == <<"GET">>

\* request methods
Methods == { GET, <<"POST">>, <<"HEAD">> }

\* ['/auth', '/oauth/authorize', '/oauth/auth']
AuthPaths == { <<"/auth">>, <<"/oauth/authorize">>, <<"/oauth/auth">> }

\* ['/callback', '/oauth/redirect']
CallbackPaths == { <<"/callback">>, <<"/oauth/redirect">> }

\* the pathnames of the requests: the aliases and some that are none of them
Pathnames ==
  AuthPaths \cup CallbackPaths
  \cup { <<"/">>, <<"/auth/">>, <<"/AUTH">>, <<"/oauth">>, <<"/callback/x">>, <<"/health">> }

\* the router that forgets the method
RouteMutant(method, pathname) ==
  IF pathname \in AuthPaths THEN "auth"
  ELSE IF pathname \in CallbackPaths THEN "callback"
  ELSE "notfound"

\* which branch of fetch takes the request
Route(method, pathname) ==
  IF method = GET /\ pathname \in AuthPaths THEN "auth"
  ELSE IF method = GET /\ pathname \in CallbackPaths THEN "callback"
  ELSE "notfound"

\* new Response('', { status: 404 })
NotFound == [status |-> 404, contentType |-> undefined, location |-> NoLocation,
             setCookie |-> SetCookie(undefined, 0, FALSE), page |-> NoPage]

\* a request with its method and pathname
Routed(method, pathname, request) ==
  [method |-> method, pathname |-> pathname,
   provider |-> request.provider, site_id |-> request.site_id, origin |-> request.origin,
   cookie |-> request.cookie, code |-> request.code, state |-> request.state,
   viaBrowser |-> request.viaBrowser]

RouterInit ==
  /\ Init
  /\ env.ALLOWED_DOMAINS = undefined
  /\ env.INSECURE_COOKIES = <<"0">>
  /\ Truthy(env.GITHUB_CLIENT_ID) /\ Truthy(env.GITHUB_CLIENT_SECRET)

\* fetch(request, env): the request is handed to handleAuth or to handleCallback
\* (here up to its first await), or answered 404
RouterFetch ==
  /\ pc = "idle"
  /\ \E method \in Methods, pathname \in Pathnames,
        provider \in {undefined, github, bitbucket},
        cookie \in {undefined, CookiePrefix \o github \o <<"_">> \o T1},
        state \in {undefined, T1} :
       LET request == Routed(method, pathname,
                             Request(provider, undefined, cookie, <<"abc">>, state, FALSE))
           route   == Route(method, pathname)
           checks  == callbackChecks(request, env)
       IN  IF route = "auth"
           THEN Complete("auth", request, handleAuth(request, env, T1), 0)
           ELSE IF route = "callback"
           THEN IF checks.returned
                THEN Complete("callback", request, checks.response, 0)
                ELSE /\ pc' = "fetching"
                     /\ cb' = [NoCb EXCEPT !.request = request, !.fetch = checks.fetch]
                     /\ fetchCalls' = fetchCalls + 1
                     /\ last' = NoLast
                     /\ jar' = jar
           ELSE Complete("notfound", request, NotFound, 0)
  /\ UNCHANGED <<env, popup, flows>>

RouterNext ==
  \/ RouterFetch
  \/ FetchFailed
  \/ FetchResponded
  \/ JsonFailed
  \/ JsonParsed

RouterSpec == RouterInit /\ [][RouterNext]_vars

----------------------------------------------------------------------------
(* The responder page in the browser: the script of outputHTML's document, *)
(* run when the popup loads it, and the message events delivered to it     *)

\* how many message events are delivered to one page
MaxEvents == 2

\* the target origin '*'
Wildcard == <<"*">>

\* the origins of the windows that send the page a message
Origins == { <<"https://cms.example.com">>, <<"https://evil.example">> }

\* the data of the messages sent to the page
EventData ==
  { <<"authorizing:">> \o p : p \in {github, gitlab, unknown} } \cup { <<"ping">> }

Message(data, target) == [data |-> data, target |-> target]

\* the popup has received one of the pages the operations return
PageInit ==
  /\ env \in {c \in Configs : c.GITHUB_HOSTNAME # undefined}
  /\ jar = undefined
  /\ pc = "idle"
  /\ cb = NoCb
  /\ fetchCalls = 0
  /\ last = NoLast
  /\ flows = NoFlows
  /\ \E options \in OptionsPassed, opener \in BOOLEAN :
       popup = [NoPopup EXCEPT !.page = outputHTML(options, env).page, !.opener = opener]

\* The browser runs the script: when it parses, the listener is registered and
\* window.opener?.postMessage('authorizing:<provider>', '*') is called.
PageLoad ==
  /\ popup.page.state # "none"
  /\ ~ popup.loaded
  /\ popup' = [popup EXCEPT
                 !.loaded    = TRUE,
                 !.listening = popup.page.script.runs,
                 !.posted    = IF popup.page.script.runs /\ popup.opener
                               THEN <<Message(popup.page.script.announce, Wildcard)>>
                               ELSE <<>>]
  /\ UNCHANGED <<env, jar, pc, cb, fetchCalls, last, flows>>

\* A message event reaches the page: the listener, if there is one, answers
\* data === 'authorizing:<provider>' with window.opener?.postMessage(..., origin).
PageMessage ==
  /\ popup.loaded
  /\ popup.received < MaxEvents
  /\ \E data \in EventData, origin \in Origins :
       popup' = [popup EXCEPT
                  !.received = popup.received + 1,
                  !.event    = [data |-> data, origin |-> origin],
                  !.posted   = IF /\ popup.listening
                                  /\ data = popup.page.script.listensFor
                                  /\ popup.opener
                               THEN Append(popup.posted, Message(popup.page.script.reply, origin))
                               ELSE popup.posted]
  /\ UNCHANGED <<env, jar, pc, cb, fetchCalls, last, flows>>

PageNext ==
  \/ PageLoad
  \/ PageMessage

PageSpec == PageInit /\ [][PageNext]_vars

----------------------------------------------------------------------------
(* Reading a request and a response for the properties below.  The cookies *)
(* of a header are read here as HTTP defines them, apart from the pattern  *)
(* of handleCallback: `name=value` pairs, each value ending at the next    *)
(* `;` or at the end of the header.                                        *)

Occurs(h, i, x) ==
  /\ i + Len(x) - 1 <= Len(h)
  /\ \A j \in 1..Len(x) : h[i + j - 1] = x[j]

\* the header holds the text csrf-token=<value> with the value ending there
CarriesValue(h, value) ==
  /\ h # undefined
  /\ \E i \in 1..Len(h) :
       LET x == CookiePrefix \o value
       IN  /\ Occurs(h, i, x)
           /\ (i + Len(x) > Len(h) \/ h[i + Len(x)] = ";")

\* position i of the header is where a cookie pair starts
PairStart(h, i) ==
  \/ i = 1
  \/ h[i - 1] = ";"
  \/ i >= 3 /\ h[i - 1] = " " /\ h[i - 2] = ";"

\* the header carries a cookie named csrf-token whose value is `value`
HasCookie(h, value) ==
  /\ h # undefined
  /\ \E i \in 1..Len(h) :
       LET x == CookiePrefix \o value
       IN  /\ PairStart(h, i)
           /\ Occurs(h, i, x)
           /\ (i + Len(x) > Len(h) \/ h[i + Len(x)] = ";")

\* the header carries a csrf-token cookie for a recognised provider whose
\* token is exactly `token`
HasToken(h, token) ==
  /\ Truthy(token)
  /\ \E p \in supportedProviders : HasCookie(h, p \o <<"_">> \o token)

IsPage(response) ==
  /\ response.status = 200
  /\ response.contentType = <<"text/html;charset=UTF-8">>
  /\ response.page.state \in {"success", "error"}

ErrorCodeOf(response) == response.page.content.errorCode

IsErrorPage(response, code) ==
  /\ IsPage(response)
  /\ response.page.state = "error"
  /\ ErrorCodeOf(response) = code

\* the response stores a live csrf-token cookie in the browser
SetsActiveCookie(response) ==
  response.status # 0 /\ response.setCookie.maxAge > 0

DoneAuth == last.op = "auth"
DoneCallback == last.op = "callback"

----------------------------------------------------------------------------
(* Properties *)

\* C1: a callback issues the outbound token-exchange POST, and can render a
\* success page, only if its Cookie header carried a csrf-token cookie with a
\* recognised provider and a token, and the state parameter equals that token;
\* otherwise it completes without any outbound call.
C1_ExchangeOnlyAfterCsrf ==
  /\ pc # "idle" => fetchCalls > 0 /\ HasToken(cb.request.cookie, cb.request.state)
  /\ DoneCallback /\ last.fetchCalls > 0
       => HasToken(last.request.cookie, last.request.state)
  /\ DoneCallback /\ last.response.page.state = "success"
       => last.fetchCalls > 0 /\ HasToken(last.request.cookie, last.request.state)
  /\ DoneCallback /\ ~ HasToken(last.request.cookie, last.request.state)
       => last.fetchCalls = 0 /\ last.response.page.state = "error"

\* the Cookie header the browser sends once handleAuth has minted a cookie for
\* `provider` with token `t`
MintedHeader(provider, t) == CookieHeader(IssuedCookie(provider, t, env).value)

\* the invocation went past the CSRF comparison: it stopped at the credential
\* check or went on to the token exchange
PassedCsrf(response, calls) ==
  calls > 0 \/ IsErrorPage(response, MISCONFIGURED_CLIENT)

\* C2 as stated, for callbacks that carry a code and a state parameter: with the
\* cookie minted for github with token T, state = T passes CSRF verification and
\* every other state value yields CSRF_DETECTED.
C2_Original ==
  \A t \in MintedTokens :
    DoneCallback /\ last.request.viaBrowser /\ last.request.cookie = MintedHeader(github, t)
      /\ Truthy(last.request.code) /\ last.request.state # undefined
      => IF last.request.state = t
         THEN PassedCsrf(last.response, last.fetchCalls)
         ELSE IsErrorPage(last.response, CSRF_DETECTED)

\* C2 (amended): with the cookie minted for github with token T and a non-empty
\* code, state = T passes CSRF verification and every other non-empty state
\* yields CSRF_DETECTED with no outbound call; an absent or empty code or state
\* yields AUTH_CODE_REQUEST_FAILED before the comparison.
C2_CsrfRoundTrip ==
  \A t \in MintedTokens :
    /\ pc # "idle" /\ cb.request.viaBrowser /\ cb.request.cookie = MintedHeader(github, t)
         => cb.request.state = t /\ Truthy(cb.request.code)
    /\ DoneCallback /\ last.request.viaBrowser /\ last.request.cookie = MintedHeader(github, t)
         => IF ~ Truthy(last.request.code) \/ ~ Truthy(last.request.state)
            THEN IsErrorPage(last.response, AUTH_CODE_REQUEST_FAILED) /\ last.fetchCalls = 0
            ELSE IF last.request.state = t
            THEN PassedCsrf(last.response, last.fetchCalls)
            ELSE IsErrorPage(last.response, CSRF_DETECTED) /\ last.fetchCalls = 0

\* C2 witness: the browser replayed a cookie minted for github with a state
\* that is another token, and got CSRF_DETECTED
C2_Witness ==
  \E t \in MintedTokens :
    /\ DoneCallback /\ last.request.viaBrowser
    /\ last.request.cookie = MintedHeader(github, t)
    /\ Truthy(last.request.code)
    /\ last.request.state \in MintedTokens \ {t}
    /\ IsErrorPage(last.response, CSRF_DETECTED)

\* the header holds the text csrf-token=<provider>_
CarriesProvider(h, provider) ==
  /\ h # undefined
  /\ \E i \in 1..Len(h) : Occurs(h, i, CookiePrefix \o provider \o <<"_">>)

\* no csrf-token cookie of the header names a recognised provider
NoKnownCookieProvider(h) ==
  \A p \in supportedProviders : ~ CarriesProvider(h, p)

C4_Original ==
  /\ DoneAuth /\ last.request.provider = bitbucket
       => IsErrorPage(last.response, UNSUPPORTED_BACKEND)
  /\ DoneCallback /\ (\E t \in MintedTokens :
                        CarriesValue(last.request.cookie, bitbucket \o <<"_">> \o t))
       => IsErrorPage(last.response, UNSUPPORTED_BACKEND)

\* C4 (amended): with provider bitbucket the response carries UNSUPPORTED_BACKEND
\* on both legs for every configuration of credentials once the earlier checks
\* have passed: on the initiator the allow-list check (else UNSUPPORTED_DOMAIN),
\* on the callback the presence of code and state (else AUTH_CODE_REQUEST_FAILED)
\* and the equality of state and cookie token (else CSRF_DETECTED).  No redirect
\* and no outbound call is ever made for bitbucket.
C4_BitbucketUnsupported ==
  /\ DoneAuth /\ last.request.provider = bitbucket
       => /\ last.response.status # 302
          /\ IF DomainRejected(env.ALLOWED_DOMAINS, last.request.site_id)
             THEN IsErrorPage(last.response, UNSUPPORTED_DOMAIN)
             ELSE IsErrorPage(last.response, UNSUPPORTED_BACKEND)
  /\ \A t \in MintedTokens :
       /\ DoneCallback /\ CarriesValue(last.request.cookie, bitbucket \o <<"_">> \o t)
            => /\ last.fetchCalls = 0
               /\ IF ~ Truthy(last.request.code) \/ ~ Truthy(last.request.state)
                  THEN IsErrorPage(last.response, AUTH_CODE_REQUEST_FAILED)
                  ELSE IF last.request.state # t
                  THEN IsErrorPage(last.response, CSRF_DETECTED)
                  ELSE IsErrorPage(last.response, UNSUPPORTED_BACKEND)
       /\ pc # "idle" => ~ CarriesValue(cb.request.cookie, bitbucket \o <<"_">> \o t)

\* C4 witness: a callback with a bitbucket cookie, a code and the matching
\* state was answered UNSUPPORTED_BACKEND although every credential is set
C4_Witness ==
  /\ DoneCallback
  /\ CarriesValue(last.request.cookie, bitbucket \o <<"_">> \o T1)
  /\ last.request.state = T1 /\ Truthy(last.request.code)
  /\ Truthy(env.GITHUB_CLIENT_ID) /\ Truthy(env.GITHUB_CLIENT_SECRET)
  /\ Truthy(env.GITLAB_CLIENT_ID) /\ Truthy(env.GITLAB_CLIENT_SECRET)
  /\ IsErrorPage(last.response, UNSUPPORTED_BACKEND)
  /\ last.response.page.provider = bitbucket

\* C5: the cookie issued with the 302 carries Secure unless INSECURE_COOKIES=1 is
\* configured, in which case Secure is omitted; the deletion cookie of a
\* responder page follows the same policy (Secure on one iff on the other).
C5_SecurePolicy ==
  /\ DoneAuth /\ last.response.status = 302
       => (last.response.setCookie.secure <=> env.INSECURE_COOKIES # <<"1">>)
  /\ IsPage(last.response)
       => (last.response.setCookie.secure <=> env.INSECURE_COOKIES # <<"1">>)

\* C6: every response of a callback, and every HTML page of the initiator,
\* carries a Set-Cookie deleting csrf-token (Max-Age=0); no callback response
\* leaves or sets an active csrf-token cookie.
C6_PagesDeleteCookie ==
  /\ DoneCallback => IsPage(last.response)
  /\ DoneAuth => IsPage(last.response) \/ last.response.status = 302
  /\ IsPage(last.response)
       => /\ last.response.setCookie.name = <<"csrf-token">>
          /\ last.response.setCookie.maxAge = 0
          /\ last.response.setCookie.path = <<"/">>
          /\ ~ SetsActiveCookie(last.response)
  /\ DoneCallback /\ last.request.viaBrowser => jar = undefined

\* C6 witness: a callback of the browser that carried a live cookie ended in a
\* success page, and the jar is empty
C6_Witness ==
  /\ DoneCallback /\ last.request.viaBrowser
  /\ last.request.cookie # undefined
  /\ last.response.page.state = "success"
  /\ last.response.setCookie.maxAge = 0
  /\ jar = undefined

\* C7: within one callback the outbound token-exchange call is made at most
\* once; a transport failure is not retried and ends the callback with a
\* TOKEN_REQUEST_FAILED page.
C7_SingleExchange ==
  [][ /\ fetchCalls' <= 1
      /\ last'.fetchCalls <= 1
      /\ pc = "fetching"
           => /\ fetchCalls = 1
              /\ pc' = "fetching" => UNCHANGED vars
              /\ pc' = "parsing" => fetchCalls' = fetchCalls
              /\ pc' = "idle"
                   => /\ last'.op = "callback"
                      /\ last'.request = cb.request
                      /\ last'.fetchCalls = 1
                      /\ IsErrorPage(last'.response, TOKEN_REQUEST_FAILED) ]_vars

\* C7 witness: a callback ended in TOKEN_REQUEST_FAILED after its one call
C7_Witness ==
  /\ DoneCallback
  /\ last.fetchCalls = 1
  /\ IsErrorPage(last.response, TOKEN_REQUEST_FAILED)

\* `entry` with its first `*` standing for one or more of the characters of `any`
WildcardMatches(entry, site, any) ==
  LET stars == {i \in 1..Len(entry) : entry[i] = "*"}
  IN  IF stars = {} THEN site = entry
      ELSE LET i    == Min(stars)
               pre  == SubSeq(entry, 1, i - 1)
               post == SubSeq(entry, i + 1, Len(entry))
               n    == Len(site) - Len(pre) - Len(post)
           IN  /\ n >= 1
               /\ SubSeq(site, 1, Len(pre)) = pre
               /\ SubSeq(site, Len(site) - Len(post) + 1, Len(site)) = post
               /\ \A j \in (Len(pre) + 1)..(Len(pre) + n) : any \/ site[j] \notin LineTerminator

\* the entries between the commas of the allow-list
Entries(allowed) == {Split(allowed)[i] : i \in 1..Len(Split(allowed))}

\* C8 as stated: for a supported provider the initiator answers UNSUPPORTED_DOMAIN
\* iff the allow-list is non-empty and site_id matches none of its
\* comma-separated entries, an entry taken literally but for `*` standing for
\* one or more characters.
C8_Original ==
  DoneAuth /\ last.request.provider \in supportedProviders
    => ( IsErrorPage(last.response, UNSUPPORTED_DOMAIN)
         <=> /\ Truthy(env.ALLOWED_DOMAINS)
             /\ \A entry \in Entries(env.ALLOWED_DOMAINS) :
                  ~ WildcardMatches(entry, Coalesce(last.request.site_id, <<>>), TRUE) )

\* C8 (amended): for a supported provider the initiator answers UNSUPPORTED_DOMAIN
\* iff the allow-list is non-empty and site_id (the empty string when absent)
\* matches none of its comma-separated entries; an entry, with the white space
\* around it removed, matches when the whole site_id equals it literally except
\* that its first `*` stands for one or more characters none of which is a line
\* terminator.  An empty or unset allow-list permits every site_id.
C8_AllowList ==
  DoneAuth /\ last.request.provider \in supportedProviders
    => ( IsErrorPage(last.response, UNSUPPORTED_DOMAIN)
         <=> /\ Truthy(env.ALLOWED_DOMAINS)
             /\ \A entry \in Entries(env.ALLOWED_DOMAINS) :
                  ~ WildcardMatches(Trim(entry), Coalesce(last.request.site_id, <<>>), FALSE) )

\* C8 witness: with the allow-list *.example.com the initiator refused evil.com
C8_Witness ==
  /\ DoneAuth /\ last.request.provider \in supportedProviders
  /\ env.ALLOWED_DOMAINS = <<"*", ".">> \o example_com
  /\ last.request.site_id = evil_com
  /\ IsErrorPage(last.response, UNSUPPORTED_DOMAIN)

ParamValues(params, k) == {params[i].v : i \in {j \in 1..Len(params) : params[j].k = k}}

IsHexToken(t) == Len(t) = TokenLen /\ \A i \in 1..Len(t) : t[i] \in HexChar

\* the initiator's request passes every check
AuthSucceeds ==
  /\ last.request.provider \in {github, gitlab}
  /\ ~ DomainRejected(env.ALLOWED_DOMAINS, last.request.site_id)
  /\ IF last.request.provider = github
     THEN Truthy(env.GITHUB_CLIENT_ID) /\ Truthy(env.GITHUB_CLIENT_SECRET)
     ELSE Truthy(env.GITLAB_CLIENT_ID) /\ Truthy(env.GITLAB_CLIENT_SECRET)

\* C9: when the initiator succeeds the response is a 302 to the provider's
\* authorization endpoint whose state parameter is the token of the cookie
\* csrf-token=<provider>_<32 lowercase hex>, the provider being the requested
\* one; GitLab's URL carries redirect_uri=<origin>/callback and
\* response_type=code, GitHub's carries scope repo,user and no redirect_uri.
C9_Redirect ==
  DoneAuth /\ AuthSucceeds
    => LET r   == last.response
           p   == last.request.provider
           loc == r.location
       IN  /\ r.status = 302
           /\ r.setCookie.name = <<"csrf-token">>
           /\ \E t \in ParamValues(loc.params, "state") :
                /\ IsHexToken(t)
                /\ ParamValues(loc.params, "state") = {t}
                /\ r.setCookie.value = p \o <<"_">> \o t
           /\ p = github
                => /\ loc.host = Coalesce(env.GITHUB_HOSTNAME, <<"github.com">>)
                   /\ loc.path = <<"/login/oauth/authorize">>
                   /\ ParamValues(loc.params, "scope") = {<<"repo,user">>}
                   /\ ParamValues(loc.params, "redirect_uri") = {}
           /\ p = gitlab
                => /\ loc.host = Coalesce(env.GITLAB_HOSTNAME, <<"gitlab.com">>)
                   /\ loc.path = <<"/oauth/authorize">>
                   /\ ParamValues(loc.params, "redirect_uri")
                        = {last.request.origin \o <<"/callback">>}
                   /\ ParamValues(loc.params, "response_type") = {<<"code">>}

\* C9 witness: the initiator redirected to GitLab
C9_Witness ==
  /\ DoneAuth /\ AuthSucceeds
  /\ last.request.provider = gitlab
  /\ last.response.status = 302
  /\ last.response.location.host = <<"gitlab.com">>

\* a credential of `provider` is missing from the configuration
MissingCredential(provider) ==
  IF provider = github
  THEN ~ Truthy(env.GITHUB_CLIENT_ID) \/ ~ Truthy(env.GITHUB_CLIENT_SECRET)
  ELSE ~ Truthy(env.GITLAB_CLIENT_ID) \/ ~ Truthy(env.GITLAB_CLIENT_SECRET)

\* C10: for github or gitlab a missing client id or secret yields
\* MISCONFIGURED_CLIENT, never UNSUPPORTED_BACKEND: on the initiator once the
\* domain check has passed, with no redirect and no active cookie; on the
\* callback once the CSRF check has passed, with no outbound call.
C10_MisconfiguredClient ==
  /\ DoneAuth /\ last.request.provider \in {github, gitlab}
       /\ ~ DomainRejected(env.ALLOWED_DOMAINS, last.request.site_id)
       /\ MissingCredential(last.request.provider)
       => /\ IsErrorPage(last.response, MISCONFIGURED_CLIENT)
          /\ last.response.status # 302
          /\ ~ SetsActiveCookie(last.response)
  /\ \A p \in {github, gitlab} :
       /\ DoneCallback /\ Truthy(last.request.code)
            /\ Truthy(last.request.state)
            /\ CarriesValue(last.request.cookie, p \o <<"_">> \o last.request.state)
            /\ MissingCredential(p)
            => /\ IsErrorPage(last.response, MISCONFIGURED_CLIENT)
               /\ last.fetchCalls = 0
       /\ pc # "idle" /\ CarriesValue(cb.request.cookie, p \o <<"_">> \o cb.request.state)
            => ~ MissingCredential(p)

\* C10 witness: a callback that passed the CSRF check for gitlab was answered
\* MISCONFIGURED_CLIENT without an outbound call
C10_Witness ==
  /\ DoneCallback /\ Truthy(last.request.code)
  /\ CarriesValue(last.request.cookie, gitlab \o <<"_">> \o last.request.state)
  /\ MissingCredential(gitlab)
  /\ IsErrorPage(last.response, MISCONFIGURED_CLIENT)
  /\ last.fetchCalls = 0

\* the result message the page of `response` answers with, when its script runs
Posts(response, message) ==
  /\ response.page.script.runs
  /\ response.page.script.reply = message

\* C11: when the token endpoint's body parses and holds an error and no
\* access_token, the callback renders an error page whose payload carries
\* exactly the provider's error string and no errorCode; when the body cannot
\* be parsed the callback renders MALFORMED_RESPONSE.
C11_ErrorPassedThrough ==
  /\ DoneCallback /\ last.body.json = "object"
       /\ Truthy(last.body.error) /\ last.body.access_token = undefined
       => /\ IsPage(last.response)
          /\ last.response.page.state = "error"
          /\ last.response.page.provider = cookieMatch(last.request.cookie).provider
          /\ Posts(last.response,
                   ResultMessage(last.response.page.provider, "error",
                     Options(last.response.page.provider, undefined,
                             last.body.error, undefined)))
  /\ DoneCallback /\ last.body.json = "invalid"
       => IsErrorPage(last.response, MALFORMED_RESPONSE)

\* C12: when CSRF verification passed and the token endpoint's body parses and
\* holds an access_token and no error, the page is in the success state, its
\* payload's token is the returned access_token, its provider is the cookie's
\* provider and the payload has no error field.
C12_TokenDelivered ==
  DoneCallback /\ last.body.json = "object"
    /\ last.body.access_token # undefined /\ last.body.error = undefined
    => /\ IsPage(last.response)
       /\ last.response.page.state = "success"
       /\ last.response.page.provider = cookieMatch(last.request.cookie).provider
       /\ last.response.page.content.error = undefined
       /\ Posts(last.response,
                ResultMessage(last.response.page.provider, "success",
                  Options(last.response.page.provider, last.body.access_token,
                          undefined, undefined)))

\* the result messages among those the page has posted
ResultsPosted ==
  {i \in 1..Len(popup.posted) : popup.posted[i].data = popup.page.script.reply}

\* C13: the page's listener is one-time: whatever message events are delivered
\* to the page, several `authorizing:<provider>` among them, the page posts the
\* result message at most once.
C13_OneTimeListener ==
  Cardinality(ResultsPosted) <= 1

\* C14: the result message is posted only in answer to a received message whose
\* data is exactly `authorizing:<provider>` for the page's provider, to the origin
\* of that message; the only message ever posted with the wildcard target is the
\* initial `authorizing:<provider>`, which is sent on load whatever the page
\* holds and carries no token.
C14_HandshakeTargets ==
  [][ LET loaded   == popup'.page
          posted   == popup'.posted
          announce == <<"authorizing:">> \o loaded.provider
      IN  /\ popup'.loaded /\ popup'.opener
               => /\ Len(posted) >= 1
                  /\ posted[1] = Message(announce, Wildcard)
          /\ \A i \in 1..Len(posted) :
               posted[i].target = Wildcard => i = 1 /\ posted[i].data = announce
          /\ popup.loaded /\ posted # popup.posted
               => /\ posted = Append(popup.posted, Message(loaded.script.reply, popup'.event.origin))
                  /\ popup'.event.data = announce ]_vars

\* the provider identifiers a page may hold
PageProviders == supportedProviders \cup {unknown}

C16_Routing ==
  /\ last.op # "none"
       => LET r == last.request
          IN  /\ last.op = "auth"
                   <=> /\ r.method = <<"GET">>
                       /\ r.pathname \in {<<"/auth">>, <<"/oauth/auth">>, <<"/oauth/authorize">>}
              /\ last.op = "callback"
                   <=> /\ r.method = <<"GET">>
                       /\ r.pathname \in {<<"/callback">>, <<"/oauth/redirect">>}
              /\ last.op = "auth" => last.response = handleAuth(r, env, T1)
              /\ last.op = "callback" => IsPage(last.response)
              /\ last.op \notin {"auth", "callback"}
                   => /\ last.response.status = 404
                      /\ last.response.page = NoPage
                      /\ last.response.location = NoLocation
                      /\ ~ SetsActiveCookie(last.response)
                      /\ last.fetchCalls = 0
  /\ pc # "idle"
       => /\ cb.request.method = <<"GET">>
          /\ cb.request.pathname \in {<<"/callback">>, <<"/oauth/redirect">>}

\* C16 witness: a POST of /auth was answered 404
C16_Witness ==
  /\ last.op = "notfound"
  /\ last.request.method = <<"POST">>
  /\ last.request.pathname = <<"/auth">>
  /\ last.request.provider = github
  /\ last.response.status = 404

\* C17: every invocation of either operation, whatever the token endpoint does
\* (transport failure, unparseable body, error body, token body), ends with one
\* response, a 302 (initiator success only) or a 200 text/html responder page;
\* no fault leaves the operation.
C17_AlwaysAnswers ==
  /\ [](DoneAuth => IF AuthSucceeds
                    THEN last.response.status = 302 /\ ~ IsPage(last.response)
                    ELSE IsPage(last.response))
  /\ [](DoneCallback => IsPage(last.response))
  /\ (pc # "idle" ~> (pc = "idle" /\ DoneCallback /\ IsPage(last.response)))

\* C17 witness: a callback whose token endpoint sent an unparseable body ended
\* with the MALFORMED_RESPONSE page
C17_Witness ==
  /\ DoneCallback
  /\ last.body.json = "invalid"
  /\ last.fetchCalls = 1
  /\ IsErrorPage(last.response, MALFORMED_RESPONSE)

\* C18: rejection is idempotent and stateless: a callback with the same cookie
\* and the same invalid state gets the same CSRF_DETECTED response every time,
\* whatever requests came before it; the response is determined by the request
\* and the configuration alone.
C18_RejectionStateless ==
  \A p \in supportedProviders, t \in MintedTokens :
    /\ DoneCallback /\ HasCookie(last.request.cookie, p \o <<"_">> \o t)
         /\ Truthy(last.request.code) /\ Truthy(last.request.state)
         /\ last.request.state # t
         => /\ last.response = outputHTML(Options(p, undefined, ErrCsrf, CSRF_DETECTED), env)
            /\ IsErrorPage(last.response, CSRF_DETECTED)
            /\ last.fetchCalls = 0
    /\ pc # "idle" /\ HasCookie(cb.request.cookie, p \o <<"_">> \o t)
         => cb.request.state = t

\* C18 witness: after an initiator call has left a live cookie in the browser,
\* a callback from elsewhere with a github cookie and another token as state
\* was answered CSRF_DETECTED
C18_Witness ==
  /\ DoneCallback /\ ~ last.request.viaBrowser
  /\ jar # undefined
  /\ HasCookie(last.request.cookie, github \o <<"_">> \o T1)
  /\ Truthy(last.request.code)
  /\ last.request.state \in MintedTokens \ {T1}
  /\ IsErrorPage(last.response, CSRF_DETECTED)

\* the header carries the cookie csrf-token=<p>_<t> for a recognised provider p
CookieFor(h, p, t) == p \in supportedProviders /\ HasCookie(h, p \o <<"_">> \o t)

\* the header carries no csrf-token cookie of a recognised provider
CookieAbsent(h) ==
  \A p \in supportedProviders, t \in MintedTokens : ~ CookieFor(h, p, t)

\* checks (1) to (5) of the callback, in their order, for a request whose cookie
\* is csrf-token=<p>_<t>: the code of the first that fails, or "passed"
FirstFailure(request, p, t) ==
  IF ~ Truthy(request.code) \/ ~ Truthy(request.state) THEN AUTH_CODE_REQUEST_FAILED
  ELSE IF request.state # t THEN CSRF_DETECTED
  ELSE IF p \in {github, gitlab} /\ MissingCredential(p) THEN MISCONFIGURED_CLIENT
  ELSE IF p = bitbucket THEN UNSUPPORTED_BACKEND
  ELSE <<"passed">>

\* C19: the callback applies its checks in a fixed order and the first that
\* fails gives the error code: (1) cookie absent or provider unrecognised ->
\* UNSUPPORTED_BACKEND, provider unknown; (2) code or state missing ->
\* AUTH_CODE_REQUEST_FAILED; (3) state differs from the cookie token ->
\* CSRF_DETECTED; (4) credentials missing -> MISCONFIGURED_CLIENT; (5) bitbucket
\* -> UNSUPPORTED_BACKEND; (6) no response -> TOKEN_REQUEST_FAILED; (7) body not
\* parseable -> MALFORMED_RESPONSE.  Every error page deletes the cookie.
C19_CheckPrecedence ==
  /\ DoneCallback /\ CookieAbsent(last.request.cookie)
       => /\ IsErrorPage(last.response, UNSUPPORTED_BACKEND)
          /\ last.response.page.provider = unknown
          /\ last.fetchCalls = 0
  /\ pc # "idle" => ~ CookieAbsent(cb.request.cookie)
  /\ \A p \in supportedProviders, t \in MintedTokens :
       /\ DoneCallback /\ CookieFor(last.request.cookie, p, t)
            => LET first == FirstFailure(last.request, p, t)
               IN  /\ last.response.setCookie.maxAge = 0
                   /\ first # <<"passed">>
                        => IsErrorPage(last.response, first) /\ last.fetchCalls = 0
                   /\ first = <<"passed">>
                        => /\ last.fetchCalls = 1
                           /\ last.body.json = "none"
                                => IsErrorPage(last.response, TOKEN_REQUEST_FAILED)
                           /\ last.body.json = "invalid"
                                => IsErrorPage(last.response, MALFORMED_RESPONSE)
                           /\ last.body.json = "object"
                                => ~ IsErrorPage(last.response, TOKEN_REQUEST_FAILED)
                                   /\ ~ IsErrorPage(last.response, MALFORMED_RESPONSE)
       /\ pc # "idle" /\ CookieFor(cb.request.cookie, p, t)
            => FirstFailure(cb.request, p, t) = <<"passed">>

\* the token minted by the browser's most recent successful initiator call
LatestToken == flows.minted[Len(flows.minted)]

\* C20: when one browser starts two flows by two successful initiator calls
\* before any callback, the second cookie replaces the first: only a callback
\* whose state is the most recently minted token passes CSRF verification; the
\* callback of the earlier flow yields CSRF_DETECTED and clears the cookie, and
\* after it the later flow's callback does not pass either.
C20_LatestFlowWins ==
  /\ flows.callbacks = 0 /\ flows.minted # <<>>
       => /\ DoneAuth /\ last.response.status = 302
          /\ \E p \in {github, gitlab} : jar = p \o <<"_">> \o LatestToken
  /\ pc # "idle"
       => /\ flows.callbacks = 1 /\ flows.minted # <<>>
          /\ cb.request.state = LatestToken
  /\ DoneCallback /\ flows.callbacks = 1 /\ flows.minted # <<>>
       => /\ jar = undefined
          /\ Truthy(last.request.code)
               => /\ PassedCsrf(last.response, last.fetchCalls)
                       <=> last.request.state = LatestToken
                  /\ \A i \in 1..(Len(flows.minted) - 1) :
                       last.request.state = flows.minted[i]
                         => IsErrorPage(last.response, CSRF_DETECTED)
  /\ DoneCallback /\ flows.callbacks >= 2
       => /\ jar = undefined
          /\ last.request.cookie = undefined
          /\ ~ PassedCsrf(last.response, last.fetchCalls)
          /\ IsErrorPage(last.response, UNSUPPORTED_BACKEND)

\* C20 witness: after two flows were started, the callback of the earlier one
\* was answered CSRF_DETECTED and the browser's cookie is gone
C20_Witness ==
  /\ DoneCallback
  /\ Len(flows.minted) = 2 /\ flows.callbacks = 1
  /\ Truthy(last.request.code)
  /\ last.request.state = flows.minted[1]
  /\ last.request.cookie # undefined
  /\ IsErrorPage(last.response, CSRF_DETECTED)
  /\ jar = undefined

\* C21: the CSRF cookie is single-use from the browser's side: once a
\* responder page has been returned to the browser, by either operation, its
\* jar holds no csrf-token, and every later callback from it yields
\* UNSUPPORTED_BACKEND with provider unknown and makes no outbound call, until
\* an initiator call succeeds with a 302, which stores a cookie again.
C21_CookieSingleUse ==
  /\ pc = "idle" /\ last.op # "none" /\ IsPage(last.response) => jar = undefined
  /\ pc = "idle" /\ jar # undefined
       => /\ DoneAuth /\ last.response.status = 302
          /\ jar = last.response.setCookie.value
  /\ DoneAuth /\ last.response.status = 302
       => \E p \in {github, gitlab} : jar = p \o <<"_">> \o flows.minted[1]
  /\ pc # "idle" => flows.pages = 0 /\ jar # undefined
  /\ DoneCallback /\ flows.pages >= 1
       => /\ last.request.cookie = undefined
          /\ IsErrorPage(last.response, UNSUPPORTED_BACKEND)
          /\ last.response.page.provider = unknown
          /\ last.fetchCalls = 0
          /\ jar = undefined

\* C21 witness: the browser was sent a 302 and then a page; its next callback,
\* with a code and the minted token as state, was answered UNSUPPORTED_BACKEND
C21_Witness ==
  /\ DoneCallback
  /\ flows.minted # <<>> /\ flows.pages >= 1
  /\ Truthy(last.request.code)
  /\ last.request.state = flows.minted[1]
  /\ last.request.cookie = undefined
  /\ IsErrorPage(last.response, UNSUPPORTED_BACKEND)
  /\ last.fetchCalls = 0

\* C22: the callback renders a success page only when the parsed reply of the
\* token endpoint held a non-empty access_token: a reply with neither
\* access_token nor error, or with both empty, is never rendered as success,
\* and a reply holding both is rendered as an error that keeps the error.
C22_SuccessNeedsToken ==
  /\ DoneCallback /\ last.response.page.state = "success"
       => /\ last.body.json = "object"
          /\ Truthy(last.body.access_token)
  /\ DoneCallback /\ last.body.json = "object"
       /\ ~ Truthy(last.body.access_token) /\ ~ Truthy(last.body.error)
       => last.response.page.state # "success"
  /\ DoneCallback /\ last.body.json = "object"
       /\ Truthy(last.body.access_token) /\ Truthy(last.body.error)
       => /\ last.response.page.state = "error"
          /\ last.response.page.content.error = last.body.error

\* the value of the cookie pair whose name=... starts at position i of the
\* header, up to the next `;` or the end of the header
PairValue(h, i) ==
  LET from == i + Len(CookiePrefix)
      ends == {j \in from..Len(h) : h[j] = ";"}
      to   == IF ends = {} THEN Len(h) ELSE Min(ends) - 1
  IN  SubSeq(h, from, to)

\* v has the form <provider>_<32 lowercase hex>, the provider made of a-z and -
WellFormedValue(v) ==
  \E u \in 2..Len(v) :
    /\ v[u] = "_"
    /\ \A j \in 1..(u - 1) : v[j] \in ProviderChar
    /\ Len(v) = u + TokenLen
    /\ \A j \in (u + 1)..Len(v) : v[j] \in HexChar

\* the header carries a cookie named exactly csrf-token with a well-formed value
NamedCookie(h) ==
  /\ h # undefined
  /\ \E i \in 1..Len(h) :
       /\ PairStart(h, i)
       /\ Occurs(h, i, CookiePrefix)
       /\ WellFormedValue(PairValue(h, i))

\* C23: the callback takes the provider and the CSRF token only from a cookie
\* named exactly csrf-token whose value is <provider>_<32 lowercase hex>: a
\* Cookie header without such a cookie (only a cookie named x-csrf-token, or a
\* csrf-token whose token part is not exactly 32 hex characters) is treated as
\* cookie-absent and yields UNSUPPORTED_BACKEND with no outbound call.
C23_ExactCookieName ==
  /\ DoneCallback /\ ~ NamedCookie(last.request.cookie)
       => /\ IsErrorPage(last.response, UNSUPPORTED_BACKEND)
          /\ last.response.page.provider = unknown
          /\ last.fetchCalls = 0
  /\ pc # "idle" => NamedCookie(cb.request.cookie)

====
